---- MODULE Spec2Model ----
(***************************************************************************)
(* Read path of the placenta research database: database.py (the query     *)
(* layer over the SQLite table geo_metadata), app.py (the three Flask      *)
(* routes) and init_db.py (the one-time import that assigns object_id).    *)
(*                                                                         *)
(* Text is a sequence of one-character strings.  SQL NULL and Python None  *)
(* are distinguished values of the same shape as the values they replace.  *)
(***************************************************************************)
EXTENDS Integers, Sequences, FiniteSets, TLC

VARIABLES db, conns, resp, first

vars == <<db, conns, resp, first>>

----------------------------------------------------------------------------
(* Bounds of the model *)

MaxRecords == 3
MaxOpen == 2
MaxPerPage == 2
MaxPage == 4
MaxRows == 2

----------------------------------------------------------------------------
(* Values *)

\* SQL NULL in a TEXT column (never a text: its only element is not a character)
NULL == <<"NULL">>

\* Python None where a dict (filters, a row) is expected
None == [none |-> TRUE]

\* A Python int too large for a 64-bit SQLite INTEGER.  It stands for 2^64;
\* every other integer of the model is far below it and is bound unchanged.
HugeInt == 2^30

\* sqlite3 binds a Python int as a 64-bit INTEGER and raises OverflowError
\* when it does not fit
BindOverflows(n) == n >= HugeInt

\* a page counted from 0
Offset_FromZero(page, per_page) ==
    IF page >= HugeInt THEN HugeInt ELSE page * per_page

\* (page - 1) * per_page over Python's unbounded integers
Offset(page, per_page) ==
    IF page >= HugeInt THEN HugeInt ELSE (page - 1) * per_page

\* geo_metadata columns in table order (PRAGMA table_info), restricted to the
\* identifier, the three filter columns and one free-text column
Columns == <<"object_id", "data_type", "title", "organism", "library_strategy">>

\* decimal text of a small non-negative integer (SQLite converts a numeric
\* operand of LIKE to text)
Digit(n) == CASE n = 0 -> "0" [] n = 1 -> "1" [] n = 2 -> "2" [] n = 3 -> "3"
              [] n = 4 -> "4" [] n = 5 -> "5" [] n = 6 -> "6" [] n = 7 -> "7"
              [] n = 8 -> "8" [] OTHER -> "9"

RECURSIVE IntText(_)
IntText(n) == IF n < 10 THEN <<Digit(n)>>
              ELSE IntText(n \div 10) \o <<Digit(n % 10)>>

\* the operand LIKE sees for a column of a row
CellText(row, col) == IF col = "object_id" THEN IntText(row[col]) ELSE row[col]

\* ASCII case folding, as SQLite's LIKE does by default
Lower(c) == CASE c = "A" -> "a" [] c = "B" -> "b" [] OTHER -> c

\* SQLite's LIKE: % matches any run of characters, _ exactly one character,
\* anything else itself up to ASCII case; NULL LIKE x is not true
RECURSIVE PatternCompare(_, _)
PatternCompare(pat, s) ==
    IF pat = <<>> THEN s = <<>>
    ELSE IF Head(pat) = "%"
         THEN \E k \in 0..Len(s) : PatternCompare(Tail(pat), SubSeq(s, k + 1, Len(s)))
    ELSE IF s = <<>> THEN FALSE
    ELSE IF Head(pat) = "_" THEN PatternCompare(Tail(pat), Tail(s))
    ELSE Lower(Head(pat)) = Lower(Head(s)) /\ PatternCompare(Tail(pat), Tail(s))

Like(s, pat) == s # NULL /\ PatternCompare(pat, s)

\* f"%{query}%"
SearchTerm(query) == <<"%">> \o query \o <<"%">>

\* LIMIT ? OFFSET ? on an ordered row list: SQLite reads a negative OFFSET as 0
LimitOffset(rows, limit, offset) ==
    LET off == IF offset < 0 THEN 0 ELSE offset
        hi  == IF off + limit < Len(rows) THEN off + limit ELSE Len(rows)
    IN  SubSeq(rows, off + 1, hi)

\* ORDER BY object_id over the rows that satisfy a predicate
RECURSIVE OrderById(_)
OrderById(rows) ==
    IF rows = {} THEN <<>>
    ELSE LET m == CHOOSE r \in rows : \A o \in rows : r.object_id <= o.object_id
         IN  <<m>> \o OrderById(rows \ {m})

Rows(d) == {d[i] : i \in 1..Len(d)}

\* the quotient rounded down
TotalPages_Floor(total, per_page) == total \div per_page

\* (total + per_page - 1) // per_page
TotalPages(total, per_page) == (total + per_page - 1) \div per_page

----------------------------------------------------------------------------
(* database.py *)

\* text_columns = [col for col in columns if col != 'object_id']
TextColumns == SelectSeq(Columns, LAMBDA col : col # "object_id")

\* the identifier searched like any other column
SearchEntriesWhere_WithId(row, query) ==
    \E i \in 1..Len(Columns) :
        Like(CellText(row, Columns[i]), SearchTerm(query))

\* search_entries: " OR ".join(f"{col} LIKE ?") with every parameter the
\* search term
SearchEntriesWhere(row, query) ==
    \E i \in 1..Len(TextColumns) :
        Like(CellText(row, TextColumns[i]), SearchTerm(query))

\* a group that is present is applied even when its list is empty
GroupClause_EmptyApplied(row, filters, key, col) ==
    key \in DOMAIN filters =>
        /\ row[col] # NULL
        /\ \E i \in 1..Len(filters[key]) : filters[key][i] = row[col]

\* one filter group of search_with_filters: 'key in filters and filters[key]'
\* guards the clause "col IN (?, ...)"; NULL IN (...) is not true
GroupClause(row, filters, key, col) ==
    (key \in DOMAIN filters /\ filters[key] # <<>>) =>
        /\ row[col] # NULL
        /\ \E i \in 1..Len(filters[key]) : filters[key][i] = row[col]

\* 'if filters:' is false for None and for the empty dict
FiltersGiven(filters) == filters # None /\ DOMAIN filters # {}

\* search_with_filters: the clauses joined by AND, "1=1" when there is none
SearchWithFiltersWhere(row, query, filters) ==
    /\ query # <<>> =>
           \E i \in 1..Len(TextColumns) :
               Like(CellText(row, TextColumns[i]), SearchTerm(query))
    /\ FiltersGiven(filters) =>
           /\ GroupClause(row, filters, "organisms", "organism")
           /\ GroupClause(row, filters, "data_types", "data_type")
           /\ GroupClause(row, filters, "library_strategies", "library_strategy")

\* the dict every search function returns
PageDict(matching, page, per_page, offset) ==
    [results     |-> LimitOffset(OrderById(matching), per_page, offset),
     total       |-> Cardinality(matching),
     page        |-> page,
     per_page    |-> per_page,
     total_pages |-> TotalPages(Cardinality(matching), per_page)]

\* Outcome of one database function.  fail is what the store does to this
\* call: "connect" (sqlite3.connect raises), "execute" (a query raises
\* sqlite3.OperationalError) or "none".  leak is 1 when the function leaves
\* without reaching conn.close().
Raised(exc, leak) == [status |-> exc, leak |-> leak, value |-> None]

Returned(value) == [status |-> "ok", leak |-> 0, value |-> value]

search_with_filters(d, query, filters, page, per_page, fail) ==
    LET offset   == Offset(page, per_page)
        matching == {r \in Rows(d) : SearchWithFiltersWhere(r, query, filters)}
    IN  IF fail = "connect" THEN Raised("OperationalError", 0)
        ELSE IF fail = "execute" THEN Raised("OperationalError", 1)
        ELSE IF BindOverflows(per_page) \/ BindOverflows(offset)
             THEN Raised("OverflowError", 1)
        ELSE Returned(PageDict(matching, page, per_page, offset))

search_entries(d, query, page, per_page, fail) ==
    LET offset   == Offset(page, per_page)
        matching == {r \in Rows(d) : SearchEntriesWhere(r, query)}
    IN  IF fail = "connect" THEN Raised("OperationalError", 0)
        ELSE IF fail = "execute" THEN Raised("OperationalError", 1)
        ELSE IF BindOverflows(per_page) \/ BindOverflows(offset)
             THEN Raised("OverflowError", 1)
        ELSE Returned(PageDict(matching, page, per_page, offset))

get_all_entries(d, page, per_page, fail) ==
    LET offset == Offset(page, per_page)
    IN  IF fail = "connect" THEN Raised("OperationalError", 0)
        ELSE IF fail = "execute" THEN Raised("OperationalError", 1)
        ELSE IF BindOverflows(per_page) \/ BindOverflows(offset)
             THEN Raised("OverflowError", 1)
        ELSE Returned(PageDict(Rows(d), page, per_page, offset))

\* fetchone() of "WHERE object_id = ?": the first matching row, else None
get_entry_by_id(d, object_id, fail) ==
    LET hits == {r \in Rows(d) : r.object_id = object_id}
    IN  IF fail = "connect" THEN Raised("OperationalError", 0)
        ELSE IF fail = "execute" THEN Raised("OperationalError", 1)
        ELSE IF BindOverflows(object_id) THEN Raised("OverflowError", 1)
        ELSE Returned(IF hits = {} THEN None ELSE OrderById(hits)[1])

\* code point of a character, the order of SQLite's BINARY collation
CharCode(c) == CASE c = " " -> 32 [] c = "%" -> 37 [] c = "1" -> 49
                 [] c = "2" -> 50 [] c = "A" -> 65 [] c = "B" -> 66
                 [] c = "_" -> 95 [] c = "a" -> 97 [] c = "b" -> 98
                 [] OTHER -> 122

RECURSIVE TextLess(_, _)
TextLess(s, t) ==
    IF t = <<>> THEN FALSE
    ELSE IF s = <<>> THEN TRUE
    ELSE IF CharCode(Head(s)) # CharCode(Head(t))
         THEN CharCode(Head(s)) < CharCode(Head(t))
    ELSE TextLess(Tail(s), Tail(t))

RECURSIVE OrderByText(_)
OrderByText(S) ==
    IF S = {} THEN <<>>
    ELSE LET m == CHOOSE s \in S : \A t \in S : t = s \/ TextLess(s, t)
         IN  <<m>> \o OrderByText(S \ {m})

\* SELECT DISTINCT col ... WHERE col IS NOT NULL AND col != '' ORDER BY col
DistinctValues(d, col) ==
    OrderByText({r[col] : r \in {x \in Rows(d) : x[col] # NULL /\ x[col] # <<>>}})

get_filter_options(d, fail) ==
    IF fail = "connect" THEN Raised("OperationalError", 0)
    ELSE IF fail = "execute" THEN Raised("OperationalError", 1)
    ELSE Returned([organisms          |-> DistinctValues(d, "organism"),
                   data_types         |-> DistinctValues(d, "data_type"),
                   library_strategies |-> DistinctValues(d, "library_strategy")])

----------------------------------------------------------------------------
(* init_db.py *)

\* df.insert(0, 'object_id', range(1, len(df) + 1)): the i-th spreadsheet
\* row gets identifier i
init_database(sheet) ==
    [i \in 1..Len(sheet) |->
        [object_id        |-> i,
         data_type        |-> sheet[i].data_type,
         title            |-> sheet[i].title,
         organism         |-> sheet[i].organism,
         library_strategy |-> sheet[i].library_strategy]]

----------------------------------------------------------------------------
(* State *)

\* per_page=20, the default every route relies on
DefaultPerPage == 20

NoArgs == [query |-> <<>>, filters |-> None, page |-> 0, per_page |-> 0,
           object_id |-> 0]

\* resp is the outcome of the latest request: the route that served it ("" for
\* a direct call), the database function it called and with which arguments,
\* how that call ended, what it returned, the HTTP status and, for the index
\* page, the outcome of get_filter_options
Response(route, fn, args, out, http, options) ==
    [route |-> route, fn |-> fn, args |-> args, status |-> out.status,
     value |-> out.value, http |-> http, options |-> options]

NoResponse == Response("", "none", NoArgs, Raised("none", 0), 0, None)

\* spreadsheet rows the import may meet
SheetRows ==
    { [organism |-> <<"A">>, data_type |-> <<"a">>, library_strategy |-> <<"b">>,
       title |-> <<"a", "B">>],
      [organism |-> <<"B">>, data_type |-> <<"a">>, library_strategy |-> NULL,
       title |-> <<"2">>],
      [organism |-> <<"A">>, data_type |-> <<"b">>, library_strategy |-> <<"b">>,
       title |-> <<>>],
      [organism |-> NULL, data_type |-> NULL, library_strategy |-> NULL,
       title |-> NULL] }

\* two of them, for the specifications that need many records of few kinds
FewRows == {r \in SheetRows : r.data_type = <<"a">>}

Sheets(rows, n) == UNION {[1..k -> rows] : k \in 0..n}

\* the state after the import of a sheet of at most n rows
Imported(rows, n) ==
    /\ db \in {init_database(sheet) : sheet \in Sheets(rows, n)}
    /\ conns = 0
    /\ resp = NoResponse
    /\ first = NoResponse

\* a database call ends: connections it did not close stay open
Finish(r, leak) ==
    /\ conns + leak <= MaxOpen
    /\ conns' = conns + leak
    /\ resp' = r
    /\ UNCHANGED <<db, first>>

----------------------------------------------------------------------------
(* database.py called directly *)

SearchWithFilters(query, filters, page, per_page, fail) ==
    LET out == search_with_filters(db, query, filters, page, per_page, fail)
    IN  Finish(Response("", "search_with_filters",
                        [NoArgs EXCEPT !.query = query, !.filters = filters,
                                       !.page = page, !.per_page = per_page],
                        out, 0, None), out.leak)

SearchEntries(query, page, per_page, fail) ==
    LET out == search_entries(db, query, page, per_page, fail)
    IN  Finish(Response("", "search_entries",
                        [NoArgs EXCEPT !.query = query, !.page = page,
                                       !.per_page = per_page],
                        out, 0, None), out.leak)

GetAllEntries(page, per_page, fail) ==
    LET out == get_all_entries(db, page, per_page, fail)
    IN  Finish(Response("", "get_all_entries",
                        [NoArgs EXCEPT !.page = page, !.per_page = per_page],
                        out, 0, None), out.leak)

\* a lookup that takes the record out of the table
GetEntryById_Consuming(object_id, fail) ==
    LET out == get_entry_by_id(db, object_id, fail)
    IN  /\ conns + out.leak <= MaxOpen
        /\ conns' = conns + out.leak
        /\ resp' = Response("", "get_entry_by_id",
                            [NoArgs EXCEPT !.object_id = object_id], out, 0, None)
        /\ db' = SelectSeq(db, LAMBDA r : r.object_id # object_id)
        /\ UNCHANGED first

GetEntryById(object_id, fail) ==
    LET out == get_entry_by_id(db, object_id, fail)
    IN  Finish(Response("", "get_entry_by_id",
                        [NoArgs EXCEPT !.object_id = object_id], out, 0, None),
               out.leak)

GetFilterOptions(fail) ==
    LET out == get_filter_options(db, fail)
    IN  Finish(Response("", "get_filter_options", NoArgs, out, 0, None), out.leak)

----------------------------------------------------------------------------
(* app.py *)

\* str.strip() for the blank character
RECURSIVE LStrip(_)
LStrip(s) == IF s # <<>> /\ Head(s) = " " THEN LStrip(Tail(s)) ELSE s

RECURSIVE RStrip(_)
RStrip(s) == IF s # <<>> /\ s[Len(s)] = " " THEN RStrip(SubSeq(s, 1, Len(s) - 1))
             ELSE s

Strip(s) == RStrip(LStrip(s))

\* request.args.get('page', 1, type=int): a missing or non-numeric parameter
\* (the empty tuple) gives the default
PageArg(raw) == IF raw = <<>> THEN 1 ELSE raw[1]

\* the filters dict of index(): a key only for a non-empty selection, and
\* None instead of an empty dict
BuildFilters(organisms, data_types, strategies) ==
    LET keys == (IF organisms # <<>> THEN {"organisms"} ELSE {})
                \cup (IF data_types # <<>> THEN {"data_types"} ELSE {})
                \cup (IF strategies # <<>> THEN {"library_strategies"} ELSE {})
        dict == [k \in keys |->
                    IF k = "organisms" THEN organisms
                    ELSE IF k = "data_types" THEN data_types ELSE strategies]
    IN  IF keys # {} THEN dict ELSE None

\* GET /
Index(q, rawPage, organisms, data_types, strategies, fail, failOptions) ==
    LET query   == Strip(q)
        page    == PageArg(rawPage)
        filters == BuildFilters(organisms, data_types, strategies)
        data    == search_with_filters(db, query, filters, page, DefaultPerPage, fail)
        options == IF data.status = "ok" THEN get_filter_options(db, failOptions)
                   ELSE Raised("none", 0)
        args    == [NoArgs EXCEPT !.query = query, !.filters = filters,
                                  !.page = page, !.per_page = DefaultPerPage]
    IN  Finish(Response("index", "search_with_filters", args, data,
                        IF data.status = "ok" /\ options.status = "ok"
                        THEN 200 ELSE 500,
                        [status |-> options.status, value |-> options.value]),
               data.leak + options.leak)

\* GET /entry/<int:object_id>
EntryDetail(object_id, fail) ==
    LET entry == get_entry_by_id(db, object_id, fail)
    IN  Finish(Response("entry_detail", "get_entry_by_id",
                        [NoArgs EXCEPT !.object_id = object_id], entry,
                        IF entry.status # "ok" THEN 500
                        ELSE IF entry.value = None THEN 404 ELSE 200,
                        None), entry.leak)

\* GET /api/search
ApiSearch(q, rawPage, fail) ==
    LET query == Strip(q)
        page  == PageArg(rawPage)
        data  == IF query # <<>>
                 THEN search_entries(db, query, page, DefaultPerPage, fail)
                 ELSE get_all_entries(db, page, DefaultPerPage, fail)
    IN  Finish(Response("api_search",
                        IF query # <<>> THEN "search_entries" ELSE "get_all_entries",
                        [NoArgs EXCEPT !.query = query, !.page = page,
                                       !.per_page = DefaultPerPage],
                        data, IF data.status = "ok" THEN 200 ELSE 500, None),
               data.leak)

----------------------------------------------------------------------------
(* Requests *)

EmptyDict == [k \in {} |-> <<>>]

\* every dict over the three filter keys whose lists come from lists
FilterDicts(lists) ==
    UNION {[keys -> lists] :
              keys \in SUBSET {"organisms", "data_types", "library_strategies"}}

\* page numbers a caller may pass, those below 1 included
PageNumbers == -1..MaxPage

PerPages == 1..MaxPerPage

\* A request domain: what callers pass and what the store does meanwhile.
\*   queries, filters, pages, perPages, ids  arguments of direct calls
\*   qs, rawPages, lists                     raw parameters of the routes
\*   fails                                   store failures during a call
Step(D) ==
    \/ \E query \in D.queries, filters \in D.filters, page \in D.pages,
          per_page \in D.perPages, fail \in D.fails :
           SearchWithFilters(query, filters, page, per_page, fail)
    \/ \E query \in D.queries \ {<<>>}, page \in D.pages,
          per_page \in D.perPages, fail \in D.fails :
           SearchEntries(query, page, per_page, fail)
    \/ \E page \in D.pages, per_page \in D.perPages, fail \in D.fails :
           GetAllEntries(page, per_page, fail)
    \/ \E object_id \in D.ids, fail \in D.fails :
           GetEntryById(object_id, fail)
    \/ \E fail \in D.fails :
           GetFilterOptions(fail)
    \/ \E q \in D.qs, rawPage \in D.rawPages, organisms \in D.lists,
          data_types \in D.lists, strategies \in D.lists,
          fail \in D.fails, failOptions \in D.fails :
           Index(q, rawPage, organisms, data_types, strategies, fail, failOptions)
    \/ \E object_id \in D.ids, fail \in D.fails :
           EntryDetail(object_id, fail)
    \/ \E q \in D.qs, rawPage \in D.rawPages, fail \in D.fails :
           ApiSearch(q, rawPage, fail)

\* pagination: every page number, few predicates, a store that works
PagingRequests ==
    [queries  |-> {<<>>, <<"a">>, <<"2">>},
     filters  |-> {None, [organisms |-> << <<"A">> >>]},
     pages    |-> PageNumbers,
     perPages |-> PerPages,
     ids      |-> {1},
     qs       |-> {<<>>, <<" ", "2">>},
     rawPages |-> {<<>>, <<0>>, <<2>>},
     lists    |-> {<<>>, << <<"A">> >>},
     fails    |-> {"none"}]

Init == Imported(FewRows, MaxRecords)

Next == Step(PagingRequests)

Spec == Init /\ [][Next]_vars

----------------------------------------------------------------------------
(* Pagination *)

PageFns == {"search_with_filters", "search_entries", "get_all_entries"}

\* the latest request returned a page dict
Paged == resp.fn \in PageFns /\ resp.status = "ok"

\* ceil(total / per_page): the least n with n * per_page >= total
Ceiling(total, per_page) ==
    CHOOSE n \in 0..total : n * per_page >= total /\ \A m \in 0..(n - 1) : m * per_page < total

\* C1: whatever the term, the filters and the page, the total_pages that
\* search_with_filters, search_entries and get_all_entries report is
\* ceil(total / per_page), and it is 0 when total is 0.
C1_TotalPagesIsCeiling ==
    Paged =>
        /\ resp.value.total >= 0 /\ resp.value.per_page > 0
        /\ resp.value.total_pages = Ceiling(resp.value.total, resp.value.per_page)
        /\ resp.value.total = 0 => resp.value.total_pages = 0

\* a total that per_page does not divide, and more than one page
C1_Witness ==
    /\ Paged
    /\ resp.value.total % resp.value.per_page # 0
    /\ resp.value.total_pages >= 2

\* the rows that satisfy the predicate of the latest search_with_filters
\* call, in identifier order
Matching ==
    OrderById({r \in Rows(db) :
                  SearchWithFiltersWhere(r, resp.args.query, resp.args.filters)})

\* C2: for a page within 1..total_pages, search_with_filters returns per_page
\* records, except on the last page where it returns
\* total - (total_pages - 1) * per_page; total counts the records matching the
\* same predicate, and the slice starts at offset (page - 1) * per_page of them
\* (45 records, per_page 20, page 3: offset 40 and 5 records).
C2_PageSlice ==
    /\ (resp.fn = "search_with_filters" /\ resp.status = "ok"
          /\ resp.args.page >= 1 /\ resp.args.page <= resp.value.total_pages) =>
        LET v   == resp.value
            off == (v.page - 1) * v.per_page
        IN  /\ v.total = Len(Matching)
            /\ Len(v.results) = IF v.page < v.total_pages THEN v.per_page
                                ELSE v.total - (v.total_pages - 1) * v.per_page
            /\ \A i \in 1..Len(v.results) : v.results[i] = Matching[off + i]
    /\ LET all == [i \in 1..45 |-> [object_id |-> i]]
       IN  /\ Offset(3, 20) = 40
           /\ TotalPages(45, 20) = 3
           /\ LimitOffset(all, 20, Offset(3, 20)) = [i \in 1..5 |-> all[40 + i]]

\* a short last page that is not the first
C2_Witness ==
    /\ resp.fn = "search_with_filters" /\ resp.status = "ok"
    /\ resp.args.page = resp.value.total_pages
    /\ resp.args.page >= 2
    /\ Len(resp.value.results) < resp.value.per_page
    /\ resp.args.filters # None

\* the function of the latest request called on another page of a store that
\* works, all other arguments kept
OnPage(page) ==
    LET a == resp.args
    IN  CASE resp.fn = "search_with_filters" ->
               search_with_filters(db, a.query, a.filters, page, a.per_page, "none")
          [] resp.fn = "search_entries" ->
               search_entries(db, a.query, page, a.per_page, "none")
          [] OTHER -> get_all_entries(db, page, a.per_page, "none")

\* C5: the results of search_with_filters, search_entries and get_all_entries
\* are in strictly ascending identifier order, and every record on page p has
\* a larger identifier than every record on page p - 1.
C5_AscendingAcrossPages ==
    Paged =>
        LET here == resp.value.results
            prev == OnPage(resp.args.page - 1)
        IN  /\ \A i, j \in 1..Len(here) :
                   i < j => here[i].object_id < here[j].object_id
            /\ prev.status = "ok" =>
                   \A i \in 1..Len(here), j \in 1..Len(prev.value.results) :
                       here[i].object_id > prev.value.results[j].object_id

\* C6: a page below 1 is handled explicitly: the offset bound to the query is
\* never negative, and the page is clamped to 1 or the result is empty with
\* the true total.
C6_PageBelowOneHandled ==
    (resp.fn \in PageFns /\ resp.args.page < 1) =>
        /\ resp.status = "ok"
        /\ Offset(resp.args.page, resp.args.per_page) >= 0
        /\ \/ resp.value.page = 1 /\ resp.value.results = OnPage(1).value.results
           \/ resp.value.results = <<>> /\ resp.value.total = OnPage(1).value.total

\* C10: with no filter selected the JSON endpoint and the filtered search
\* agree: search_entries(q, page) returns what search_with_filters(q, None,
\* page) returns for a non-empty q, and get_all_entries(page) what
\* search_with_filters('', None, page) returns.
C10_EndpointsAgree ==
    LET a   == resp.args
        out == [status |-> resp.status, leak |-> 0, value |-> resp.value]
    IN  /\ (resp.fn = "search_entries" /\ a.query # <<>>) =>
               out = search_with_filters(db, a.query, None, a.page, a.per_page, "none")
        /\ resp.fn = "get_all_entries" =>
               out = search_with_filters(db, <<>>, None, a.page, a.per_page, "none")

\* the JSON endpoint served a term that some records match and others do not
C10_Witness ==
    /\ resp.route = "api_search" /\ resp.fn = "search_entries"
    /\ resp.status = "ok"
    /\ resp.value.total >= 1 /\ resp.value.total < Len(db)

----------------------------------------------------------------------------
(* Filters *)

FilterKeys == {"organisms", "data_types", "library_strategies"}

FilterColumn(key) == CASE key = "organisms" -> "organism"
                       [] key = "data_types" -> "data_type"
                       [] OTHER -> "library_strategy"

\* selections of one group: none, values that occur, a value that occurs
\* nowhere
FilterLists == {<<>>, << <<"A">>, <<"a">> >>, << <<"b">>, <<"z">> >>}

\* filter selections of every shape, first page only
FilterRequests ==
    [queries  |-> {<<>>, <<"a">>},
     filters  |-> {None} \cup FilterDicts(FilterLists),
     pages    |-> {1},
     perPages |-> {MaxPerPage},
     ids      |-> {1},
     qs       |-> {<<>>},
     rawPages |-> {<<>>},
     lists    |-> FilterLists,
     fails    |-> {"none"}]

InitFilters == Imported(SheetRows, MaxRows)

NextFilters == Step(FilterRequests)

SpecFilters == InitFilters /\ [][NextFilters]_vars

\* the values selected in a group; none when the group or the dict is absent
Selected(filters, key) ==
    IF filters # None /\ key \in DOMAIN filters
    THEN {filters[key][i] : i \in 1..Len(filters[key])}
    ELSE {}

\* the record's value is among the selected values of every non-empty group
MatchesSelection(row, filters) ==
    \A key \in FilterKeys :
        Selected(filters, key) # {} => row[FilterColumn(key)] \in Selected(filters, key)

\* C3: in search_with_filters a record matches if and only if, for every
\* non-empty group among organism, data type and library strategy, its value
\* in that column is one of the selected values, and the text clause holds;
\* without filters and term every record matches; a selected value that occurs
\* in no record gives total 0 and no results, not an error; a group that is
\* present but empty adds no predicate.
C3_FilterComposition ==
    resp.fn = "search_with_filters" =>
        LET a == resp.args
            M == {r \in Rows(db) :
                     /\ MatchesSelection(r, a.filters)
                     /\ a.query # <<>> => SearchEntriesWhere(r, a.query)}
        IN  /\ resp.status = "ok"
            /\ resp.value.total = Cardinality(M)
            /\ resp.value.results = LimitOffset(OrderById(M), a.per_page, 0)
            /\ (a.query = <<>> /\ \A key \in FilterKeys : Selected(a.filters, key) = {})
                  => resp.value.total = Len(db)
            /\ (\E key \in FilterKeys :
                    /\ Selected(a.filters, key) # {}
                    /\ \A r \in Rows(db) : r[FilterColumn(key)] \notin Selected(a.filters, key))
                  => resp.value.total = 0 /\ resp.value.results = <<>>

\* two groups selected and a third present but empty; some records match and
\* some do not
C3_Witness ==
    /\ resp.fn = "search_with_filters" /\ resp.status = "ok"
    /\ Selected(resp.args.filters, "organisms") # {}
    /\ Selected(resp.args.filters, "data_types") # {}
    /\ "library_strategies" \in DOMAIN resp.args.filters
    /\ resp.args.filters["library_strategies"] = <<>>
    /\ resp.value.total >= 1 /\ resp.value.total < Len(db)

----------------------------------------------------------------------------
(* Free text *)

\* terms with and without the characters LIKE reads as wildcards
TextRequests ==
    [queries  |-> {<<"a">>, <<"A">>, <<"b", "a">>, <<"a", "b">>, <<"2">>,
                   <<"z">>, <<"_">>, <<"%">>, <<"a", "_">>},
     filters  |-> {None, EmptyDict},
     pages    |-> {1},
     perPages |-> {MaxPerPage},
     ids      |-> {1},
     qs       |-> {<<>>, <<" ", "_">>, <<"a", "b", " ">>},
     rawPages |-> {<<>>},
     lists    |-> {<<>>},
     fails    |-> {"none"}]

InitText == Imported(SheetRows, MaxRows)

NextText == Step(TextRequests)

SpecText == InitText /\ [][NextText]_vars

\* t occurs in s as literal text, up to ASCII case (the store's default
\* text comparison for LIKE)
Contains(s, t) ==
    /\ s # NULL
    /\ \E k \in 0..(Len(s) - Len(t)) :
           \A i \in 1..Len(t) : Lower(s[k + i]) = Lower(t[i])

LiteralMatches(query) ==
    {r \in Rows(db) : \E i \in 1..Len(TextColumns) : Contains(r[TextColumns[i]], query)}

\* C4: for a non-empty term the text clause of search_with_filters and
\* search_entries matches exactly the records in which a column other than
\* the identifier contains the term, taken as literal text; a term that occurs
\* in no field gives total 0 and no results.
C4_LiteralSubstring ==
    (/\ resp.fn \in {"search_with_filters", "search_entries"}
     /\ resp.status = "ok"
     /\ resp.args.query # <<>>
     /\ ~FiltersGiven(resp.args.filters)) =>
        /\ resp.value.total = Cardinality(LiteralMatches(resp.args.query))
        /\ resp.value.results =
               LimitOffset(OrderById(LiteralMatches(resp.args.query)), resp.args.per_page, 0)

----------------------------------------------------------------------------
(* Store failures and connections *)

\* a store that may fail, and integers beyond 64 bits
StoreRequests ==
    [queries  |-> {<<>>, <<"a">>},
     filters  |-> {None},
     pages    |-> {1, HugeInt},
     perPages |-> {MaxPerPage},
     ids      |-> 0..(MaxRecords + 1) \cup {HugeInt},
     qs       |-> {<<>>, <<"a">>},
     rawPages |-> {<<>>, <<HugeInt>>},
     lists    |-> {<<>>},
     fails    |-> {"none", "connect", "execute"}]

InitStore == Imported(FewRows, MaxRecords)

NextStore == Step(StoreRequests)

SpecStore == InitStore /\ [][NextStore]_vars

\* C7: every connection a database operation opens is closed before the
\* operation ends, on every path, also when a query fails: no sequence of
\* requests leaves a connection open.
C7_NoOpenConnection == conns = 0

\* C8: get_entry_by_id returns exactly the record with the given identifier
\* when there is one, and None (a 404 from entry_detail) without raising when
\* there is none; with identifiers 1..N, lookup of N + 1 is not found.  A
\* store that cannot be queried is outside the claim.
C8_LookupTotal ==
    (resp.fn = "get_entry_by_id" /\ resp.status # "OperationalError") =>
        LET hits == {r \in Rows(db) : r.object_id = resp.args.object_id}
        IN  /\ resp.status = "ok"
            /\ hits # {} => resp.value \in hits
            /\ hits = {} => /\ resp.value = None
                            /\ resp.route = "entry_detail" => resp.http = 404
            /\ resp.args.object_id = Len(db) + 1 => hits = {}

----------------------------------------------------------------------------
(* Repeated requests *)

IdemRequests ==
    [queries  |-> {<<>>, <<"a">>},
     filters  |-> {None, [organisms |-> << <<"A">> >>]},
     pages    |-> {1, 2},
     perPages |-> {MaxPerPage},
     ids      |-> {1, MaxRecords + 1},
     qs       |-> {<<"2">>},
     rawPages |-> {<<>>},
     lists    |-> {<<>>, << <<"A">> >>},
     fails    |-> {"none"}]

\* keeps the outcome of one request to compare later outcomes with
Remember ==
    /\ first = NoResponse
    /\ resp # NoResponse
    /\ first' = resp
    /\ UNCHANGED <<db, conns, resp>>

InitIdem == Imported(FewRows, MaxRecords)

NextIdem == Step(IdemRequests) \/ Remember

SpecIdem == InitIdem /\ [][NextIdem]_vars

\* C9: no search, lookup or filter-option request changes the record set, so
\* a request repeated with the same term, filters and page (or identifier)
\* gets the same results and total as before, whatever ran in between.
C9_ReadsRepeat ==
    /\ []((first.fn = resp.fn /\ first.args = resp.args) =>
             (first.status = resp.status /\ first.value = resp.value))
    /\ [][db' = db]_vars

\* a remembered search that found records has been repeated
C9_Witness ==
    /\ first.fn = "search_with_filters" /\ first.status = "ok"
    /\ first.value.total >= 1
    /\ first.args = resp.args /\ first.fn = resp.fn

====
